---- MODULE Spec2Model ----
(***************************************************************************)
(* sockpp: the socket handle lifecycle and the acceptor state machine.     *)
(*                                                                         *)
(* The repository holds the acceptor class at two moments of one           *)
(* refactoring: include/sockpp/acceptor.h with acceptor.cpp (default       *)
(* constructor, open, protected bind/listen) and the templated acceptor.h  *)
(* (constructor that creates the socket, binds, listens and throws         *)
(* ConstructionError; accept returning a pair).  The model gives an        *)
(* acceptor object the operations of both.  The socket base class          *)
(* (socket.h, socket.cpp) is not among the sources; its operations are     *)
(* modelled from the specification's section 4.3.  The operating system    *)
(* (::socket, ::bind, ::listen, ::accept, ::close) is the environment.     *)
(*                                                                         *)
(* Three more specifications exercise parts that do not touch the socket   *)
(* objects above.  SpecAddr: the constructors of unix_address and          *)
(* inet6_address over the cells of their native structures.  SpecIO: read, *)
(* read_n, write, write_n of a connected stream socket (section 4.4).      *)
(* SpecConn: connects against listening and absent servers (section 4.6).  *)
(***************************************************************************)
EXTENDS Integers, FiniteSets, Sequences, TLC

\* ------------------------------------------------------------------ bounds

NumAcceptors == 2
NumStreams == 2
MaxFd == 3
NumAddrs == 2
\* the address types: the values a byte of an address holds are 0..MaxByte
MaxByte == 2
\* unix_address::MAX_PATH_NAME, the size of sockaddr_un::sun_path (108 in the
\* build), scaled down
MAX_PATH_NAME == 4
\* the size of sockaddr::sa_data (14 in the build), scaled down
SaDataLen == 3
\* the size of in6_addr (16 in the build), scaled down
HostLen == 2
\* stream I/O: the longest buffer read or written
MaxLen == 4
\* the most bytes the OS moves in one underlying read or write
MaxChunk == 2
\* the width of int (32 in the build), scaled down with the buffers: the
\* values of an int are -2^(IntBits-1) .. 2^(IntBits-1) - 1
IntBits == 3

AcceptorIds == 1..NumAcceptors
StreamIds == (NumAcceptors + 1)..(NumAcceptors + NumStreams)
Objs == AcceptorIds \cup StreamIds
Fds == 1..MaxFd
Addrs == 1..NumAddrs

\* --------------------------------------------------------------- constants

\* the "no descriptor" sentinel of a socket handle
INVALID_SOCKET == -1
\* an acceptor's addr_ before any bind: a default-constructed sock_address
NoAddr == 0

Errs == {"OK", "EBADF", "EINVAL", "EADDRINUSE", "EMFILE"}

\* ------------------------------------------------------------------- state

VARIABLES
    kind,       \* per object slot: "free" (no object), "acceptor", "stream"
    pc,         \* "idle", or the step the running constructor takes next
    ctorObj,    \* the object under construction (when pc is not "idle")
    ctorAddr,   \* the address argument of the running constructor
    handle,     \* socket::handle_
    lastErr,    \* socket::lastErr_
    addr_,      \* acceptor::addr_
    fdOpen,     \* OS: the descriptors that are open
    fdBound,    \* OS, per descriptor: the address it is bound to, or NoAddr
    fdListen,   \* OS, per descriptor: listen() succeeded on it
    badClose,   \* OS: ::close was applied to a descriptor that was not open
    rawOwned,   \* descriptors handed to the caller by release()
    last        \* the operation that produced this state, with its result

vars == <<kind, pc, ctorObj, ctorAddr, handle, lastErr, addr_, fdOpen, fdBound,
          fdListen, badClose, rawOwned, last>>

osVars == <<fdOpen, fdBound, fdListen, badClose>>

\* The address types and the stream I/O are exercised on their own, each by
\* a specification of its own; the socket operations above leave them alone.
VARIABLES
    adr,        \* the address object built last, with how it was built
    io          \* a connected stream socket, its peer, and the last I/O call

\* A call that blocks in the OS while another thread uses the same object
\* is followed by a specification of its own as well.
VARIABLES
    blk         \* the thread inside a blocking call, and the call it is in

addrVars == <<adr>>
ioVars == <<io>>
raceVars == <<blk>>
notSockVars == <<adr, io, blk>>
ctorVars == <<pc, ctorObj, ctorAddr>>

\* The record written to "last" by every operation.
\*   op: operation name; obj: the object it ran on; other: the second object
\*   (the socket returned by accept, the target of a move), else obj again;
\*   ok: the boolean result (or success of the call); fd: the handle of obj
\*   before the operation; ret: the descriptor returned (socket, accept,
\*   release) or INVALID_SOCKET; closed: the descriptors the operation
\*   handed to ::close; wasListening: obj was listening before an open or an
\*   accept; addr: the address argument or NoAddr.
Op(op, obj, other, ok, fd, ret, closed, wasListening, addr) ==
    [op |-> op, obj |-> obj, other |-> other, ok |-> ok, fd |-> fd, ret |-> ret,
     closed |-> closed, wasListening |-> wasListening, addr |-> addr]

\* ---------------------------------------------------------- the environment

IsOpenFd(d) == d \in fdOpen

\* The address is bound by some open descriptor.
AddrInUse(a) == \E d \in fdOpen : fdBound[d] = a

FreeFds == Fds \ fdOpen

\* The descriptor the OS hands out next: the lowest number not in use.
NextFd == CHOOSE d \in FreeFds : \A e \in FreeFds : d <= e

\* ::socket(domain, SOCK_STREAM, 0): the possible results, a descriptor or
\* a failure.
SocketOutcomes ==
    {[fd |-> INVALID_SOCKET, err |-> "EMFILE"]}
    \cup (IF FreeFds = {} THEN {} ELSE {[fd |-> NextFd, err |-> "OK"]})

\* ::bind(fd, addr, len): the possible error codes ("OK": success).
BindOutcomes(d, a) ==
    IF ~IsOpenFd(d) THEN {"EBADF"}
    ELSE IF fdBound[d] # NoAddr THEN {"EINVAL"}
    ELSE IF AddrInUse(a) THEN {"EADDRINUSE"}
    ELSE {"OK"}

\* ::listen(fd, backlog): the possible error codes.  A stream socket that
\* was never bound is given an ephemeral address by the OS (AF_INET), or
\* refused (AF_UNIX).
ListenOutcomes(d) ==
    IF ~IsOpenFd(d) THEN {"EBADF"}
    ELSE IF fdBound[d] = NoAddr THEN {"OK", "EINVAL"}
    ELSE {"OK", "EADDRINUSE"}

\* ::accept(fd, paddr, &len): the possible results.  The caller passes len
\* uninitialized (templated acceptor.h line 128): the OS may refuse it with
\* EINVAL, or take it and return the descriptor of a pending connection.
AcceptOutcomes(d) ==
    IF ~IsOpenFd(d) THEN {[fd |-> INVALID_SOCKET, err |-> "EBADF"]}
    ELSE IF ~fdListen[d] THEN {[fd |-> INVALID_SOCKET, err |-> "EINVAL"]}
    ELSE {[fd |-> INVALID_SOCKET, err |-> "EINVAL"]}
         \cup (IF FreeFds = {} THEN {} ELSE {[fd |-> NextFd, err |-> "OK"]})

\* The OS state after ::socket or ::accept returned descriptor d (no change
\* for INVALID_SOCKET).
OsAllocated(d) ==
    /\ fdOpen' = IF d = INVALID_SOCKET THEN fdOpen ELSE fdOpen \cup {d}
    /\ UNCHANGED <<fdBound, fdListen, badClose>>

\* The OS state after ::close on each descriptor of the set ds: the
\* descriptor is gone, and with it its binding.
OsClosed(ds) ==
    /\ fdOpen' = fdOpen \ ds
    /\ fdBound' = [d \in Fds |-> IF d \in ds THEN NoAddr ELSE fdBound[d]]
    /\ fdListen' = [d \in Fds |-> IF d \in ds THEN FALSE ELSE fdListen[d]]
    /\ badClose' = (badClose \/ ~(ds \subseteq fdOpen))

\* ----------------------------------------------------------- address types
\* An address object is the sequence of the cells of its native structure:
\* cell 1 is the family discriminator (sa_family_t), the rest the family's
\* fields.  unix_address: <<sun_family, sun_path[MAX_PATH_NAME]>>.
\* inet6_address: <<sin6_family, sin6_port, sin6_flowinfo,
\* sin6_addr[HostLen], sin6_scope_id>>.

AF_UNIX == 1
AF_INET == 2
AF_INET6 == 10

Bytes == 0..MaxByte
Families == {0, AF_UNIX, AF_INET, AF_INET6}

SIZEOF_SOCKADDR == 1 + SaDataLen
SIZEOF_SOCKADDR_IN == SIZEOF_SOCKADDR
SIZEOF_SOCKADDR_UN == 1 + MAX_PATH_NAME
SIZEOF_SOCKADDR_IN6 == 3 + HostLen + 1
SIZEOF_SOCKADDR_STORAGE == SIZEOF_SOCKADDR_IN6 + 2

Zeros(n) == [i \in 1..n |-> 0]

\* What an object of n cells can hold before anything is written to it.
Garbage(n) == [1..n -> Bytes]

\* The path strings a caller passes: no NUL inside, up to one longer than fits.
Paths == UNION {[1..n -> 1..MaxByte] : n \in 0..(MAX_PATH_NAME + 1)}

\* The first n characters of string s (s itself when it is no longer).
Prefix(s, n) == SubSeq(s, 1, IF Len(s) < n THEN Len(s) ELSE n)

\* A copy that stops only at the end of the string, as strcpy does: the
\* characters of src and the terminating NUL.
strcpy_unbounded(src, n) == src \o <<0>>

\* ::strncpy(dst, src, n): the cells written to dst, exactly n of them: the
\* characters of src up to n, then NULs.
strncpy(src, n) == [i \in 1..n |-> IF i <= Len(src) THEN src[i] ELSE 0]

\* The values the cells of an object of dstSize cells can hold that a copy
\* of n cells into it does not reach.
Uninit(dstSize, n) == Garbage(IF n < dstSize THEN dstSize - n ELSE 0)

\* std::memcpy(dst, src, n) into a new object of dstSize cells, g being what
\* the cells past n happen to hold: the cells of the object afterwards.
\* Cells of the copy past the end of the object are not part of it.  (No
\* caller below passes an n beyond the size of src.)
memcpy(src, n, dstSize, g) ==
    [i \in 1..dstSize |-> IF i <= n THEN src[i] ELSE g[i - n]]

\* The result of a constructor: the object's cells, or an exception; with
\* the number of cells the copy moved, and the sizes of its source and of
\* its destination.
Built(val, ncopy, srcSize, dstSize) ==
    [thrown |-> FALSE, val |-> val, ncopy |-> ncopy, srcSize |-> srcSize,
     dstSize |-> dstSize]

Thrown == [thrown |-> TRUE, val |-> <<>>, ncopy |-> 0, srcSize |-> 0, dstSize |-> 0]

\* unix_address(): an empty address, all zeroes.
unix_address_default == Zeros(SIZEOF_SOCKADDR_UN)

\* unix_address::unix_address(const string& path):
\*   sun_family = ADDRESS_FAMILY;
\*   ::strncpy(sun_path, path.c_str(), MAX_PATH_NAME);
unix_address_from_path(path) ==
    LET w == strncpy(path, MAX_PATH_NAME)
    IN  Built(<<AF_UNIX>> \o [i \in 1..MAX_PATH_NAME |-> IF i <= Len(w) THEN w[i] ELSE 0],
              Len(w), Len(path) + 1, SIZEOF_SOCKADDR_UN - 1)

\* unix_address::unix_address(const sockaddr& addr):
\*   if (domain != AF_UNIX) throw std::invalid_argument(...);
\*   std::memcpy(sockaddr_ptr(), &addr, sizeof(sockaddr));
unix_address_from_sockaddr(addr, g) ==
    IF addr[1] # AF_UNIX THEN Thrown
    ELSE Built(memcpy(addr, SIZEOF_SOCKADDR, SIZEOF_SOCKADDR_UN, g),
               SIZEOF_SOCKADDR, Len(addr), SIZEOF_SOCKADDR_UN)

\* unix_address::unix_address(const sockaddr_un& addr):
\*   if (addr.sun_family != AF_UNIX) throw std::invalid_argument(...);
\*   std::memcpy(sockaddr_un_ptr(), &addr, sizeof(sockaddr_un));
unix_address_from_sockaddr_un(addr, g) ==
    IF addr[1] # AF_UNIX THEN Thrown
    ELSE Built(memcpy(addr, SIZEOF_SOCKADDR_UN, SIZEOF_SOCKADDR_UN, g),
               SIZEOF_SOCKADDR_UN, Len(addr), SIZEOF_SOCKADDR_UN)

\* unix_address::path(): the characters of sun_path before the first NUL, at
\* most MAX_PATH_NAME of them.
unix_path(v) ==
    LET n == CHOOSE k \in 0..MAX_PATH_NAME :
                 /\ \A i \in 1..k : v[i + 1] # 0
                 /\ (k = MAX_PATH_NAME \/ v[k + 2] = 0)
    IN  SubSeq(v, 2, n + 1)

\* unix_address::is_set(): the path is not all zero.
unix_is_set(v) == \E i \in 2..Len(v) : v[i] # 0

\* A default constructor that sets the family of the empty address.
inet6_address_default_with_family ==
    [i \in 1..SIZEOF_SOCKADDR_IN6 |-> IF i = 1 THEN AF_INET6 ELSE 0]

\* inet6_address::inet6_address() { zero(); }
inet6_address_default == Zeros(SIZEOF_SOCKADDR_IN6)

\* inet6_address::create(const in6_addr& addr, in_port_t port): the address
\* of family AF_INET6 with the given host and port, the other fields zero.
inet6_create(host, port) == <<AF_INET6, port, 0>> \o host \o <<0>>

\* inet6_address::inet6_address(const sockaddr_storage& addr):
\*   std::memcpy(sockaddr_ptr(), &addr, sizeof(sockaddr_storage));
inet6_address_from_storage(addr, g) ==
    Built(memcpy(addr, SIZEOF_SOCKADDR_STORAGE, SIZEOF_SOCKADDR_IN6, g),
          SIZEOF_SOCKADDR_STORAGE, Len(addr), SIZEOF_SOCKADDR_IN6)

\* inet6_address::inet6_address(const sock_address& addr):
\*   std::memcpy(sockaddr_ptr(), addr.sockaddr_ptr(), sizeof(sockaddr_in));
inet6_address_from_sock_address(addr, g) ==
    Built(memcpy(addr, SIZEOF_SOCKADDR_IN, SIZEOF_SOCKADDR_IN6, g),
          SIZEOF_SOCKADDR_IN, Len(addr), SIZEOF_SOCKADDR_IN6)

\* inet6_address::inet6_address(const sockaddr_in6& addr):
\*   std::memcpy(sockaddr_in6_ptr(), &addr, sizeof(sockaddr_in6));
inet6_address_from_sockaddr_in6(addr, g) ==
    Built(memcpy(addr, SIZEOF_SOCKADDR_IN6, SIZEOF_SOCKADDR_IN6, g),
          SIZEOF_SOCKADDR_IN6, Len(addr), SIZEOF_SOCKADDR_IN6)

\* inet6_address::inet6_address(const inet6_address& addr):
\*   std::memcpy(this, &addr, sizeof(inet6_address));
inet6_address_copy(addr, g) ==
    Built(memcpy(addr, SIZEOF_SOCKADDR_IN6, SIZEOF_SOCKADDR_IN6, g),
          SIZEOF_SOCKADDR_IN6, Len(addr), SIZEOF_SOCKADDR_IN6)

\* inet6_address::is_set(): "simply that it's not all zero".
inet6_is_set(v) == \E i \in 1..Len(v) : v[i] # 0

\* sockaddr_ptr() read as a sockaddr: the leading sizeof(sockaddr) cells.
sockaddr_ptr(v) == SubSeq(v, 1, SIZEOF_SOCKADDR)

\* to_sock_address(): the address in the storage of a sock_address (a
\* sockaddr_storage), the cells past the address zero.
to_sock_address(v) ==
    [i \in 1..SIZEOF_SOCKADDR_STORAGE |-> IF i <= Len(v) THEN v[i] ELSE 0]

\* The record kept in adr.
\*   op: the constructor; kind: "unix", "inet6", or "none" when no object
\*   came to exist; val: the object's cells; thrown: the constructor threw;
\*   native: the constructor takes a native structure; family: the family
\*   of the constructed type; src: the native structure passed; own: src is
\*   the native view of an address of the constructed type, as it stands;
\*   prev: the cells of the address the source was taken from; ncopy,
\*   srcSize, dstSize: as in Built; arg: the path passed; set: "unset" for a
\*   default-constructed address, "set" for one built from a non-empty path
\*   or non-zero host/port fields, for its copies and for the addresses
\*   rebuilt from their native structure, "any" otherwise.
AdrRec(op, typ, r, native, family, src, own, prev, arg, set) ==
    [op |-> op, kind |-> IF r.thrown THEN "none" ELSE typ, val |-> r.val,
     thrown |-> r.thrown, native |-> native, family |-> family, src |-> src,
     own |-> own, prev |-> prev, ncopy |-> r.ncopy, srcSize |-> r.srcSize,
     dstSize |-> r.dstSize, arg |-> arg, set |-> set]

AdrInit ==
    AdrRec("none", "none", Built(<<>>, 0, 0, 0), FALSE, 0, <<>>, FALSE, <<>>, <<>>, "any")

\* ----------------------------------------------------------------- stream I/O
\* read, read_n, write and write_n of stream_socket are declared in
\* stream_socket.h and defined in stream_socket.cpp, which is not among the
\* sources: they are modelled from the specification's section 4.4.  What one
\* underlying call meets is an event of the environment:
\*   [kind |-> "data", k |-> k]   k bytes are ready (read), or the OS takes
\*                                up to k bytes (write);
\*   "close"    the peer has closed the stream in an orderly way;
\*   "reset"    the connection is broken: a hard error;
\*   "timeout"  the configured timeout ran out with nothing ready.

Min(a, b) == IF a < b THEN a ELSE b

Data(k) == [kind |-> "data", k |-> k]
Event(e) == [kind |-> e, k |-> 0]

\* The result of one call: the return value and the last-error slot.
IoResult(ret, err) == [ret |-> ret, err |-> err]

\* The buffer written: n bytes, each telling its own position.
Buf(n) == [i \in 1..n |-> i]

\* The value of an int that is given the value x of a wider type.
ToInt(x) == ((x + 2^(IntBits - 1)) % 2^IntBits) - 2^(IntBits - 1)

\* A read that reports a timeout as end of stream.
stream_socket_read_timeout_as_eof(n, ev) ==
    IF ev.kind = "data" THEN IoResult(Min(ev.k, n), "OK")
    ELSE IF ev.kind \in {"close", "timeout"} THEN IoResult(0, "OK")
    ELSE IoResult(-1, "ECONNRESET")

\* stream_socket::read(buf, n): one underlying read.  Its result is the number
\* of bytes read, 0 when the peer has closed, and -1 with the error in the
\* last-error slot on failure (a timeout is the error EWOULDBLOCK).
stream_socket_read(n, ev) ==
    IF ev.kind = "data" THEN IoResult(Min(ev.k, n), "OK")
    ELSE IF ev.kind = "close" THEN IoResult(0, "OK")
    ELSE IF ev.kind = "timeout" THEN IoResult(-1, "EWOULDBLOCK")
    ELSE IoResult(-1, "ECONNRESET")

\* stream_socket::write(buf, n): one underlying write, which may be short.
stream_socket_write(n, ev) ==
    IF ev.kind = "data" THEN IoResult(Min(ev.k, n), "OK")
    ELSE IF ev.kind = "timeout" THEN IoResult(-1, "EWOULDBLOCK")
    ELSE IoResult(-1, "EPIPE")

\* The loop of read_n: nr bytes are in, evs[i] is what the next read meets.
\* It ends when n bytes are in, at end of stream, or at an error; the count
\* reached so far is returned (-1 when an error came before any byte), and
\* the last-error slot is that of the last read.  calls lists the reads
\* issued from here on: offset, length, and the bytes read.
RECURSIVE read_n_loop(_, _, _, _)
read_n_loop(n, evs, nr, i) ==
    IF nr >= n THEN [ret |-> nr, err |-> "OK", attempts |-> i - 1, calls |-> <<>>]
    ELSE LET r == stream_socket_read(n - nr, evs[i])
             c == [off |-> nr, len |-> n - nr, took |-> r.ret]
         IN  IF r.ret <= 0
             THEN [ret |-> IF nr = 0 /\ r.ret < 0 THEN r.ret ELSE nr, err |-> r.err,
                   attempts |-> i, calls |-> <<c>>]
             ELSE LET rest == read_n_loop(n, evs, nr + r.ret, i + 1)
                  IN  [rest EXCEPT !.calls = <<c>> \o @]

\* A read_n that makes one read and returns what it gave.
stream_socket_read_n_once(n, evs) ==
    IF n = 0 THEN [ret |-> 0, err |-> "OK", attempts |-> 0, calls |-> <<>>]
    ELSE LET r == stream_socket_read(n, evs[1])
         IN  [ret |-> r.ret, err |-> r.err, attempts |-> 1,
              calls |-> <<[off |-> 0, len |-> n, took |-> r.ret]>>]

\* stream_socket::read_n(buf, n)
stream_socket_read_n(n, evs) == read_n_loop(n, evs, 0, 1)

\* The loop of write_n: nw bytes are out, evs[i] is what the next write
\* meets; each write is given the bytes not yet written, buf + nw, n - nw.
\* calls lists the writes issued: offset, length, and the bytes taken.
RECURSIVE write_n_loop(_, _, _, _, _)
write_n_loop(n, evs, nw, i, calls) ==
    IF nw >= n THEN [ret |-> nw, err |-> "OK", calls |-> calls]
    ELSE LET r == stream_socket_write(n - nw, evs[i])
             c == [off |-> nw, len |-> n - nw, took |-> r.ret]
         IN  IF r.ret < 0
             THEN [ret |-> IF nw = 0 THEN r.ret ELSE nw, err |-> r.err,
                   calls |-> Append(calls, c)]
             ELSE write_n_loop(n, evs, nw + r.ret, i + 1, Append(calls, c))

\* A write_n that issues the write that failed once more before giving up.
stream_socket_write_n_retrying(n, evs) ==
    LET r == write_n_loop(n, evs, 0, 1, <<>>)
    IN  IF r.err = "OK" THEN r
        ELSE [r EXCEPT !.calls = Append(@, @[Len(@)])]

\* stream_socket::write_n(buf, n)
stream_socket_write_n(n, evs) == write_n_loop(n, evs, 0, 1, <<>>)

\* stream_socket::write(const std::string& s), a function returning int:
\*   return write_n(s.data(), s.size());
stream_socket_write_string(n, evs) ==
    LET r == stream_socket_write_n(n, evs)
    IN  [ret |-> ToInt(r.ret), err |-> r.err, calls |-> r.calls]

\* The bytes the OS took, in order, over the writes in calls.
RECURSIVE Sent(_, _)
Sent(buf, calls) ==
    IF calls = <<>> THEN <<>>
    ELSE LET c == Head(calls)
         IN  (IF c.took > 0 THEN SubSeq(buf, c.off + 1, c.off + c.took) ELSE <<>>)
             \o Sent(buf, Tail(calls))

\* The record kept in io.
\*   rto: a read timeout is configured; err: the last-error slot; op: the
\*   call made last; n: the length asked for; ret: its return value; evs:
\*   what its underlying calls met, in order; calls: the underlying reads
\*   or writes issued;
\*   retN: what write_n returned inside write(string).
IoRec(rto, err, op, n, ret, evs, calls, retN) ==
    [rto |-> rto, err |-> err, op |-> op, n |-> n, ret |-> ret, evs |-> evs,
     calls |-> calls, retN |-> retN]

IoInit == IoRec(FALSE, "OK", "none", 0, 0, <<>>, <<>>, 0)

\* How a call can end when it does not get data: the peer closed, the
\* connection broke, or, with a read timeout configured, the timeout ran out.
\* (Without a timeout a call with nothing ready does not return.)
Ends(rto) == {"close", "reset"} \cup (IF rto THEN {"timeout"} ELSE {})

\* What the underlying calls of one read_n or write_n can meet: some bytes,
\* in chunks, and then an end.
Schedules(ends) ==
    UNION {{chunks \o <<Event(e)>> :
                chunks \in [1..m -> {Data(k) : k \in 1..MaxChunk}], e \in ends} :
           m \in 0..MaxLen}

\* The calls that can be made: with or without a read timeout configured, a
\* length, and what the underlying calls meet: a schedule, or some bytes
\* alone (for a single read or write).
IoRequests ==
    UNION {{IoRec(rto, "OK", "call", n, 0, evs, <<>>, 0) :
                n \in 0..MaxLen,
                evs \in Schedules(Ends(rto)) \cup {<<Data(k)>> : k \in 1..MaxChunk}} :
           rto \in BOOLEAN}

\* The record kept in blk.
\*   t: where the calling thread is: "idle" (in no call), "blocked" (inside
\*   the OS call), "done" (the call has returned); op: the call; obj: the
\*   object it was made on; other: the object accept returns, else obj; fd:
\*   the descriptor the call was entered with; wakes: this OS ends a blocked
\*   call when its descriptor is closed; closed: another thread closed the
\*   object while the call was blocked; res: "ok" or "err" once returned.
BlkRec(t, op, obj, other, fd, wakes, closed, res) ==
    [t |-> t, op |-> op, obj |-> obj, other |-> other, fd |-> fd, wakes |-> wakes,
     closed |-> closed, res |-> res]

BlkInit == BlkRec("idle", "none", 1, 1, INVALID_SOCKET, FALSE, FALSE, "none")

\* -------------------------------------------------------------- initial state

\* No socket object exists yet, and the OS has no descriptor open.
SockInit ==
    /\ kind = [o \in Objs |-> "free"]
    /\ pc = "idle"
    /\ ctorObj = 1
    /\ ctorAddr = NoAddr
    /\ handle = [o \in Objs |-> INVALID_SOCKET]
    /\ lastErr = [o \in Objs |-> "OK"]
    /\ addr_ = [o \in Objs |-> NoAddr]
    /\ fdOpen = {}
    /\ fdBound = [d \in Fds |-> NoAddr]
    /\ fdListen = [d \in Fds |-> FALSE]
    /\ badClose = FALSE
    /\ rawOwned = {}
    /\ last = Op("init", 1, 1, TRUE, INVALID_SOCKET, INVALID_SOCKET, {}, FALSE, NoAddr)

Init ==
    /\ SockInit
    /\ adr = AdrInit
    /\ io = IoInit
    /\ blk = BlkInit

\* The initial states of the stream I/O specification: one call about to be
\* made, with the length it asks for and what its underlying calls will meet.
InitIO ==
    /\ SockInit
    /\ adr = AdrInit
    /\ io \in IoRequests
    /\ blk = BlkInit

\* ------------------------------------------------------ derived predicates

Live(o) == kind[o] \in {"acceptor", "stream"}
Usable(o) == Live(o) /\ pc = "idle"
IsValid(o) == handle[o] # INVALID_SOCKET
IsBound(o) == IsValid(o) /\ IsOpenFd(handle[o]) /\ fdBound[handle[o]] # NoAddr
IsListening(o) == IsValid(o) /\ IsOpenFd(handle[o]) /\ fdListen[handle[o]]

\* ------------------------------------------- socket (the handle base class)

\* socket::socket(): a handle with no descriptor.
socket_default(o) ==
    /\ handle' = [handle EXCEPT ![o] = INVALID_SOCKET]
    /\ lastErr' = [lastErr EXCEPT ![o] = "OK"]
    /\ addr_' = [addr_ EXCEPT ![o] = NoAddr]

\* What close() leaves in the handle.
socket_close_handle(h) == INVALID_SOCKET

\* The descriptors close() hands to ::close: the handle's own, if it has one.
socket_close_fds(h) == IF h = INVALID_SOCKET THEN {} ELSE {h}

\* socket::close(): closes the descriptor if the handle owns one, and leaves
\* the handle invalid; on a handle that is already invalid it does nothing.
socket_close(o) ==
    /\ handle' = [handle EXCEPT ![o] = socket_close_handle(handle[o])]
    /\ OsClosed(socket_close_fds(handle[o]))
    /\ UNCHANGED <<lastErr, addr_>>

\* socket::~socket(): close(); the object is gone, and the slot it leaves
\* holds nothing.
socket_destroy(o) ==
    /\ handle' = [handle EXCEPT ![o] = INVALID_SOCKET]
    /\ OsClosed(socket_close_fds(handle[o]))
    /\ lastErr' = [lastErr EXCEPT ![o] = "OK"]
    /\ addr_' = [addr_ EXCEPT ![o] = NoAddr]

\* A release that leaves the descriptor in the handle.
socket_release_keeps_handle(h) == h

\* What release() leaves in the handle.
socket_release_handle(h) == INVALID_SOCKET

\* socket::release(): returns the descriptor, which the caller now owns, and
\* leaves the handle invalid; the descriptor stays open.
socket_release(o) ==
    /\ handle' = [handle EXCEPT ![o] = socket_release_handle(handle[o])]
    /\ UNCHANGED <<lastErr, addr_, osVars>>

\* socket::socket(socket&&): the new handle takes the descriptor and the
\* source is left invalid.
socket_move(h) == [dst |-> h, src |-> INVALID_SOCKET]

\* socket::socket(socket_t): the new handle claims the descriptor.
socket_from_handle(s) == s

\* ------------------------------------------------------------ stream_socket

\* stream_socket::stream_socket(socket_t sock) : socket(sock)
stream_socket_from_handle(s) == socket_from_handle(s)

\* A move constructor that passes its argument on without std::move: the
\* source keeps the descriptor.
stream_socket_move_keeps_source(h) == [dst |-> h, src |-> h]

\* stream_socket::stream_socket(stream_socket&& sock) : socket(std::move(sock))
stream_socket_move(h) == socket_move(h)

\* The same slip in tcp_socket's move constructor.
tcp_socket_move_keeps_source(h) == [dst |-> h, src |-> h]

\* tcp_socket::tcp_socket(tcp_socket&& sock) : stream_socket(std::move(sock))
tcp_socket_move(h) == stream_socket_move(h)

\* ----------------------------------------------------------------- acceptor

\* A bind that closes the handle when the OS refuses the request.
acceptor_bind_closing(o, a, err) ==
    /\ lastErr' = [lastErr EXCEPT ![o] = err]
    /\ addr_' = IF err = "OK" THEN [addr_ EXCEPT ![o] = a] ELSE addr_
    /\ handle' = IF err = "OK" THEN handle ELSE [handle EXCEPT ![o] = INVALID_SOCKET]
    /\ fdOpen' = IF err = "OK" THEN fdOpen ELSE fdOpen \ {handle[o]}
    /\ fdBound' = IF err = "OK" THEN [fdBound EXCEPT ![handle[o]] = a] ELSE fdBound
    /\ UNCHANGED <<fdListen, badClose>>

\* A bind that caches the address passed whether or not the OS bound it.
acceptor_bind_caches_always(o, a, err) ==
    /\ lastErr' = [lastErr EXCEPT ![o] = err]
    /\ fdBound' = IF err = "OK" THEN [fdBound EXCEPT ![handle[o]] = a] ELSE fdBound
    /\ addr_' = [addr_ EXCEPT ![o] = a]
    /\ UNCHANGED <<handle, fdOpen, fdListen, badClose>>

\* acceptor::bind(addr, len): the return value is err = "OK".
\*   bool ok = check_ret_bool(::bind(handle(), addr, len));
\*   if (ok) addr_ = sock_address(addr, len);
acceptor_bind(o, a, err) ==
    /\ lastErr' = [lastErr EXCEPT ![o] = err]
    /\ fdBound' = IF err = "OK" THEN [fdBound EXCEPT ![handle[o]] = a] ELSE fdBound
    /\ addr_' = IF err = "OK" THEN [addr_ EXCEPT ![o] = a] ELSE addr_
    /\ UNCHANGED <<handle, fdOpen, fdListen, badClose>>

\* acceptor::listen(queSize): the return value is err = "OK".
\*   return check_ret_bool(::listen(handle(), queSize));
acceptor_listen(o, err) ==
    /\ lastErr' = [lastErr EXCEPT ![o] = err]
    /\ fdListen' = IF err = "OK" THEN [fdListen EXCEPT ![handle[o]] = TRUE] ELSE fdListen
    /\ UNCHANGED <<handle, addr_, fdOpen, fdBound, badClose>>

\* An open that gives an acceptor without a descriptor a new one.
acceptor_open_allocates(o, a, ret) ==
    /\ handle' = IF handle[o] = INVALID_SOCKET /\ FreeFds # {}
                 THEN [handle EXCEPT ![o] = NextFd]
                 ELSE handle
    /\ fdOpen' = IF handle[o] = INVALID_SOCKET /\ FreeFds # {}
                 THEN fdOpen \cup {NextFd}
                 ELSE fdOpen
    /\ UNCHANGED <<lastErr, addr_, fdBound, fdListen, badClose>>

\* acceptor::open(addr, len, queSize) of acceptor.cpp: the body is empty.  It
\* changes nothing, and control flows off the end of a function returning
\* bool, so the value the caller sees is not determined (ret is any boolean).
acceptor_open(o, a, ret) ==
    UNCHANGED <<handle, lastErr, addr_, osVars>>

\* An accept that wraps the acceptor's own descriptor.
acceptor_accept_own_handle(h, s) == h

\* The descriptor the socket returned by accept() wraps: stream_socket(s).
acceptor_accept_socket(h, s) == stream_socket_from_handle(s)

\* An accept that records an error when the OS reports one and otherwise
\* leaves the last-error slot as it was.
acceptor_accept_keeps_error(o, s, out) ==
    /\ lastErr' = [lastErr EXCEPT ![o] = IF out.err = "OK" THEN lastErr[o] ELSE out.err,
                                  ![s] = "OK"]
    /\ handle' = [handle EXCEPT ![s] = stream_socket_from_handle(out.fd)]
    /\ addr_' = [addr_ EXCEPT ![s] = NoAddr]
    /\ OsAllocated(out.fd)

\* acceptor::accept() of the templated class, returning its socket in object s:
\*   socket_t s = check_ret(::accept(handle(), paddr, &len));
\*   return { stream_socket(s), addr };
acceptor_accept(o, s, out) ==
    /\ lastErr' = [lastErr EXCEPT ![o] = out.err, ![s] = "OK"]
    /\ handle' = [handle EXCEPT ![s] = acceptor_accept_socket(handle[o], out.fd)]
    /\ addr_' = [addr_ EXCEPT ![s] = NoAddr]
    /\ OsAllocated(out.fd)

\* A constructor that goes on to listen whatever bind returned.
ctor_after_bind_unchecked(ok) == "listen"

\* The templated constructor's step after bind:
\*   if (!bind(addr.sockaddr_ptr(), addr.size()) || !listen(queSize)) throw ...
ctor_after_bind(ok) == IF ok THEN "listen" ELSE "throw"

\* ... and after listen.
ctor_after_listen(ok) == IF ok THEN "idle" ELSE "throw"

\* ------------------------------------------------------------------ actions
\* The program is single-threaded: a constructor runs to its end before any
\* other operation starts (pc = "idle" between operations).

\* acceptor::acceptor() {}
AcceptorDefaultCtor(o) ==
    /\ pc = "idle" /\ o \in AcceptorIds /\ kind[o] = "free"
    /\ kind' = [kind EXCEPT ![o] = "acceptor"]
    /\ socket_default(o)
    /\ last' = Op("acceptor()", o, o, TRUE, INVALID_SOCKET, INVALID_SOCKET, {},
                  FALSE, NoAddr)
    /\ UNCHANGED <<ctorVars, osVars, rawOwned>>
    /\ UNCHANGED notSockVars

\* acceptor::open(addr, queSize) on a constructed acceptor.
Open(o, a) ==
    /\ pc = "idle" /\ o \in AcceptorIds /\ kind[o] = "acceptor"
    /\ \E ret \in BOOLEAN :
          /\ acceptor_open(o, a, ret)
          /\ last' = Op("open", o, o, ret, handle[o], INVALID_SOCKET, {},
                        IsListening(o), a)
    /\ UNCHANGED <<kind, ctorVars, rawOwned>>
    /\ UNCHANGED notSockVars

\* acceptor::acceptor(sock_address_ref addr, int queSize) of acceptor.h:
\*   open(addr.sockaddr_ptr(), addr.size(), queSize);
\* the result of open is dropped.
AcceptorOpenCtor(o, a) ==
    /\ pc = "idle" /\ o \in AcceptorIds /\ kind[o] = "free"
    /\ kind' = [kind EXCEPT ![o] = "acceptor"]
    /\ \E ret \in BOOLEAN :
          /\ acceptor_open(o, a, ret)
          /\ last' = Op("acceptor(addr)", o, o, TRUE, INVALID_SOCKET, INVALID_SOCKET,
                        {}, FALSE, a)
    /\ UNCHANGED <<ctorVars, rawOwned>>
    /\ UNCHANGED notSockVars

\* The templated constructor, first step: the base is built by socket(addr),
\* which creates a descriptor of the address's family.
CtorSocket(o, a) ==
    /\ pc = "idle" /\ o \in AcceptorIds /\ kind[o] = "free"
    /\ kind' = [kind EXCEPT ![o] = "acceptor"]
    /\ pc' = "bind"
    /\ ctorObj' = o
    /\ ctorAddr' = a
    /\ \E out \in SocketOutcomes :
          /\ handle' = [handle EXCEPT ![o] = socket_from_handle(out.fd)]
          /\ lastErr' = [lastErr EXCEPT ![o] = out.err]
          /\ addr_' = [addr_ EXCEPT ![o] = NoAddr]
          /\ OsAllocated(out.fd)
          /\ last' = Op("socket(addr)", o, o, out.err = "OK", INVALID_SOCKET, out.fd,
                        {}, FALSE, a)
    /\ UNCHANGED rawOwned
    /\ UNCHANGED notSockVars

\* The constructor's bookkeeping once it has returned or thrown.
CtorDone(next) ==
    /\ pc' = next
    /\ ctorObj' = IF next = "idle" THEN 1 ELSE ctorObj
    /\ ctorAddr' = IF next = "idle" THEN NoAddr ELSE ctorAddr

\* The templated constructor, second step: bind(addr.sockaddr_ptr(), addr.size()).
CtorBind ==
    /\ pc = "bind"
    /\ \E err \in BindOutcomes(handle[ctorObj], ctorAddr) :
          /\ acceptor_bind(ctorObj, ctorAddr, err)
          /\ CtorDone(ctor_after_bind(err = "OK"))
          /\ last' = Op("bind", ctorObj, ctorObj, err = "OK", handle[ctorObj],
                        INVALID_SOCKET, {}, FALSE, ctorAddr)
    /\ UNCHANGED <<kind, rawOwned>>
    /\ UNCHANGED notSockVars

\* The templated constructor, third step: listen(queSize).
CtorListen ==
    /\ pc = "listen"
    /\ \E err \in ListenOutcomes(handle[ctorObj]) :
          /\ acceptor_listen(ctorObj, err)
          /\ CtorDone(ctor_after_listen(err = "OK"))
          /\ last' = Op("listen", ctorObj, ctorObj, err = "OK", handle[ctorObj],
                        INVALID_SOCKET, {}, FALSE, ctorAddr)
    /\ UNCHANGED <<kind, rawOwned>>
    /\ UNCHANGED notSockVars

\* The templated constructor throws ConstructionError: the object never
\* comes to exist, and its constructed socket base is destroyed.
CtorThrow ==
    /\ pc = "throw"
    /\ socket_destroy(ctorObj)
    /\ kind' = [kind EXCEPT ![ctorObj] = "free"]
    /\ CtorDone("idle")
    /\ last' = Op("throw", ctorObj, ctorObj, FALSE, handle[ctorObj], INVALID_SOCKET,
                  socket_close_fds(handle[ctorObj]), FALSE, ctorAddr)
    /\ UNCHANGED rawOwned
    /\ UNCHANGED notSockVars

\* acceptor::accept(): the returned stream socket is object s.
Accept(o, s) ==
    /\ pc = "idle" /\ o \in AcceptorIds /\ kind[o] = "acceptor"
    /\ s \in StreamIds /\ kind[s] = "free"
    /\ kind' = [kind EXCEPT ![s] = "stream"]
    /\ \E out \in AcceptOutcomes(handle[o]) :
          /\ acceptor_accept(o, s, out)
          /\ last' = Op("accept", o, s, out.fd # INVALID_SOCKET, handle[o], out.fd, {},
                        IsListening(o), addr_[o])
    /\ UNCHANGED <<ctorVars, rawOwned>>
    /\ UNCHANGED notSockVars

\* A move construction of object b from stream socket a, by the move
\* constructor of a's class, which gives the handles mv.dst and mv.src.
MoveConstruct(a, b, mv) ==
    /\ pc = "idle"
    /\ a \in StreamIds /\ kind[a] = "stream"
    /\ b \in StreamIds /\ kind[b] = "free"
    /\ kind' = [kind EXCEPT ![b] = "stream"]
    /\ handle' = [handle EXCEPT ![b] = mv.dst, ![a] = mv.src]
    /\ lastErr' = [lastErr EXCEPT ![b] = lastErr[a]]
    /\ addr_' = [addr_ EXCEPT ![b] = NoAddr]
    /\ last' = Op("move", a, b, TRUE, handle[a], INVALID_SOCKET, {}, FALSE, NoAddr)
    /\ UNCHANGED <<ctorVars, osVars, rawOwned>>
    /\ UNCHANGED notSockVars

\* stream_socket b(std::move(a))
StreamMove(a, b) == MoveConstruct(a, b, stream_socket_move(handle[a]))

\* tcp_socket b(std::move(a))
TcpMove(a, b) == MoveConstruct(a, b, tcp_socket_move(handle[a]))

\* o.close()
Close(o) ==
    /\ Usable(o)
    /\ socket_close(o)
    /\ last' = Op("close", o, o, TRUE, handle[o], INVALID_SOCKET,
                  socket_close_fds(handle[o]), FALSE, NoAddr)
    /\ UNCHANGED <<kind, ctorVars, rawOwned>>
    /\ UNCHANGED notSockVars

\* o.release(): the caller keeps the returned descriptor.
Release(o) ==
    /\ Usable(o)
    /\ socket_release(o)
    /\ rawOwned' = rawOwned \cup (IF handle[o] = INVALID_SOCKET THEN {} ELSE {handle[o]})
    /\ last' = Op("release", o, o, TRUE, handle[o], handle[o], {}, FALSE, NoAddr)
    /\ UNCHANGED <<kind, ctorVars>>
    /\ UNCHANGED notSockVars

\* The object's lifetime ends: socket::~socket() closes the descriptor the
\* handle still owns.  The object's slot can hold a new object afterwards.
Destroy(o) ==
    /\ Usable(o)
    /\ socket_destroy(o)
    /\ kind' = [kind EXCEPT ![o] = "free"]
    /\ last' = Op("destroy", o, o, TRUE, handle[o], INVALID_SOCKET,
                  socket_close_fds(handle[o]), FALSE, NoAddr)
    /\ UNCHANGED <<ctorVars, rawOwned>>
    /\ UNCHANGED notSockVars

\* The caller closes a descriptor it got from release(): ::close(d).
CallerClose(d) ==
    /\ pc = "idle" /\ d \in rawOwned
    /\ OsClosed({d})
    /\ rawOwned' = rawOwned \ {d}
    /\ last' = Op("::close", 1, 1, TRUE, d, INVALID_SOCKET, {d}, FALSE, NoAddr)
    /\ UNCHANGED <<kind, ctorVars, handle, lastErr, addr_>>
    /\ UNCHANGED notSockVars

Next ==
    \/ \E o \in AcceptorIds : AcceptorDefaultCtor(o)
    \/ \E o \in AcceptorIds, a \in Addrs : Open(o, a)
    \/ \E o \in AcceptorIds, a \in Addrs : AcceptorOpenCtor(o, a)
    \/ \E o \in AcceptorIds, a \in Addrs : CtorSocket(o, a)
    \/ CtorBind
    \/ CtorListen
    \/ CtorThrow
    \/ \E o \in AcceptorIds, s \in StreamIds : Accept(o, s)
    \/ \E a \in StreamIds, b \in StreamIds : StreamMove(a, b)
    \/ \E a \in StreamIds, b \in StreamIds : TcpMove(a, b)
    \/ \E o \in Objs : Close(o)
    \/ \E o \in Objs : Release(o)
    \/ \E o \in Objs : Destroy(o)
    \/ \E d \in Fds : CallerClose(d)

Spec == Init /\ [][Next]_vars

\* ------------------------------------------------- address type operations
\* The constructors of unix_address and inet6_address, applied to paths, to
\* host/port fields, and to the native views of the address built before.
\* The specification follows one address value: it is built from a path or
\* from fields (when no address is held: at the start, or after a constructor
\* threw), and then copied and rebuilt from its native views.

\* "set" is kept by a copy and by a rebuild from the address's own structure.
Inherit(own) == IF own /\ adr.set = "set" THEN "set" ELSE "any"

UnixDefault ==
    /\ adr.kind = "none"
    /\ adr' = AdrRec("unix_address()", "unix",
                     Built(unix_address_default, 0, 0, SIZEOF_SOCKADDR_UN),
                     FALSE, AF_UNIX, <<>>, FALSE, <<>>, <<>>, "unset")
    /\ UNCHANGED <<vars, ioVars, raceVars>>

UnixPath(path) ==
    /\ adr.kind = "none"
    /\ adr' = AdrRec("unix_address(path)", "unix", unix_address_from_path(path),
                     FALSE, AF_UNIX, <<>>, FALSE, <<>>, path,
                     IF path # <<>> THEN "set" ELSE "any")
    /\ UNCHANGED <<vars, ioVars, raceVars>>

\* unix_address addr2(addr): the copy holds the cells of the original.
UnixCopy ==
    /\ adr.kind = "unix"
    /\ adr' = AdrRec("unix_address(copy)", "unix",
                     Built(adr.val, SIZEOF_SOCKADDR_UN, SIZEOF_SOCKADDR_UN,
                           SIZEOF_SOCKADDR_UN),
                     FALSE, AF_UNIX, <<>>, TRUE, adr.val, <<>>, Inherit(TRUE))
    /\ UNCHANGED <<vars, ioVars, raceVars>>

\* unix_address addr2(*addr.sockaddr_ptr()), addr of either type.
UnixFromSockaddr ==
    /\ adr.kind # "none"
    /\ \E g \in Uninit(SIZEOF_SOCKADDR_UN, SIZEOF_SOCKADDR) :
          adr' = AdrRec("unix_address(sockaddr)", "unix",
                        unix_address_from_sockaddr(sockaddr_ptr(adr.val), g),
                        TRUE, AF_UNIX, sockaddr_ptr(adr.val), adr.kind = "unix",
                        adr.val, <<>>, Inherit(adr.kind = "unix"))
    /\ UNCHANGED <<vars, ioVars, raceVars>>

\* unix_address addr2(unaddr), unaddr the sockaddr_un of a unix_address
\* whose sun_family the caller may have set to fam.
UnixFromSockaddrUn(fam) ==
    /\ adr.kind = "unix"
    /\ LET src == [adr.val EXCEPT ![1] = fam]
       IN  \E g \in Uninit(SIZEOF_SOCKADDR_UN, SIZEOF_SOCKADDR_UN) :
              adr' = AdrRec("unix_address(sockaddr_un)", "unix",
                            unix_address_from_sockaddr_un(src, g),
                            TRUE, AF_UNIX, src, src = adr.val, adr.val, <<>>,
                            Inherit(src = adr.val))
    /\ UNCHANGED <<vars, ioVars, raceVars>>

Inet6Default ==
    /\ adr.kind = "none"
    /\ adr' = AdrRec("inet6_address()", "inet6",
                     Built(inet6_address_default, SIZEOF_SOCKADDR_IN6, 0,
                           SIZEOF_SOCKADDR_IN6),
                     FALSE, AF_INET6, <<>>, FALSE, <<>>, <<>>, "unset")
    /\ UNCHANGED <<vars, ioVars, raceVars>>

\* inet6_address addr; addr.create(host, port), as loopback(port) does.
Inet6Create(host, port) ==
    /\ adr.kind = "none"
    /\ adr' = AdrRec("inet6_address::create", "inet6",
                     Built(inet6_create(host, port), SIZEOF_SOCKADDR_IN6, 0,
                           SIZEOF_SOCKADDR_IN6),
                     FALSE, AF_INET6, <<>>, FALSE, <<>>, <<>>,
                     IF port # 0 \/ host # Zeros(HostLen) THEN "set" ELSE "any")
    /\ UNCHANGED <<vars, ioVars, raceVars>>

Inet6Copy ==
    /\ adr.kind = "inet6"
    /\ \E g \in Uninit(SIZEOF_SOCKADDR_IN6, SIZEOF_SOCKADDR_IN6) :
          adr' = AdrRec("inet6_address(copy)", "inet6", inet6_address_copy(adr.val, g),
                        FALSE, AF_INET6, <<>>, TRUE, adr.val, <<>>, Inherit(TRUE))
    /\ UNCHANGED <<vars, ioVars, raceVars>>

\* inet6_address addr2(ss), ss a sockaddr_storage holding the cells of an
\* address of either type, its family possibly set to fam by the caller.
Inet6FromStorage(fam) ==
    /\ adr.kind # "none"
    /\ LET src == [to_sock_address(adr.val) EXCEPT ![1] = fam]
           own == adr.kind = "inet6" /\ fam = adr.val[1]
       IN  \E g \in Uninit(SIZEOF_SOCKADDR_IN6, SIZEOF_SOCKADDR_STORAGE) :
              adr' = AdrRec("inet6_address(sockaddr_storage)", "inet6",
                            inet6_address_from_storage(src, g),
                            TRUE, AF_INET6, src, own, adr.val, <<>>, Inherit(own))
    /\ UNCHANGED <<vars, ioVars, raceVars>>

\* inet6_address addr2(addr.to_sock_address()), addr of either type.
Inet6FromSockAddress ==
    /\ adr.kind # "none"
    /\ \E g \in Uninit(SIZEOF_SOCKADDR_IN6, SIZEOF_SOCKADDR_IN) :
          adr' = AdrRec("inet6_address(sock_address)", "inet6",
                        inet6_address_from_sock_address(to_sock_address(adr.val), g),
                        TRUE, AF_INET6, to_sock_address(adr.val), adr.kind = "inet6",
                        adr.val, <<>>, Inherit(adr.kind = "inet6"))
    /\ UNCHANGED <<vars, ioVars, raceVars>>

\* inet6_address addr2(sa), sa the sockaddr_in6 of an inet6_address whose
\* sin6_family the caller may have set to fam.
Inet6FromSockaddrIn6(fam) ==
    /\ adr.kind = "inet6"
    /\ LET src == [adr.val EXCEPT ![1] = fam]
       IN  \E g \in Uninit(SIZEOF_SOCKADDR_IN6, SIZEOF_SOCKADDR_IN6) :
              adr' = AdrRec("inet6_address(sockaddr_in6)", "inet6",
                            inet6_address_from_sockaddr_in6(src, g),
                            TRUE, AF_INET6, src, src = adr.val, adr.val, <<>>,
                            Inherit(src = adr.val))
    /\ UNCHANGED <<vars, ioVars, raceVars>>

AddrNext ==
    \/ UnixDefault
    \/ \E path \in Paths : UnixPath(path)
    \/ UnixCopy
    \/ UnixFromSockaddr
    \/ \E fam \in Families : UnixFromSockaddrUn(fam)
    \/ Inet6Default
    \/ \E host \in [1..HostLen -> Bytes], port \in Bytes : Inet6Create(host, port)
    \/ Inet6Copy
    \/ \E fam \in Families : Inet6FromStorage(fam)
    \/ Inet6FromSockAddress
    \/ \E fam \in Families : Inet6FromSockaddrIn6(fam)

SpecAddr == Init /\ [][AddrNext]_addrVars

\* ------------------------------------------------------ stream I/O operations
\* One connected stream socket and what its calls meet.

\* The bytes the peer delivers over the events evs.
RECURSIVE Delivered(_)
Delivered(evs) == IF evs = <<>> THEN 0 ELSE Head(evs).k + Delivered(Tail(evs))

\* The call about to be made meets one event (a single read or write), or
\* a schedule that ends (read_n, write_n).
OneEvent == io.op = "call" /\ Len(io.evs) = 1 /\ io.n >= 1
EndingSchedule == io.op = "call" /\ io.evs[Len(io.evs)].kind # "data"

\* read_timeout(to) before the call: installs (to > 0) or removes (to = 0)
\* the read timeout.  With none, no call ends in a timeout.
ReadTimeout(on) ==
    /\ io.op = "call"
    /\ io.evs[Len(io.evs)].kind = "timeout" => on
    /\ io' = [io EXCEPT !.rto = on]
    /\ UNCHANGED <<vars, addrVars, raceVars>>

\* read(buf, n)
Read ==
    /\ OneEvent
    /\ LET r == stream_socket_read(io.n, io.evs[1])
       IN  io' = IoRec(io.rto, r.err, "read", io.n, r.ret, io.evs,
                       <<[off |-> 0, len |-> io.n, took |-> r.ret]>>, 0)
    /\ UNCHANGED <<vars, addrVars, raceVars>>

\* read_n(buf, n)
ReadN ==
    /\ EndingSchedule
    /\ LET r == stream_socket_read_n(io.n, io.evs)
       IN  io' = IoRec(io.rto, r.err, "read_n", io.n, r.ret, io.evs, r.calls, 0)
    /\ UNCHANGED <<vars, addrVars, raceVars>>

\* write(buf, n)
Write ==
    /\ OneEvent
    /\ LET r == stream_socket_write(io.n, io.evs[1])
       IN  io' = IoRec(io.rto, r.err, "write", io.n, r.ret, io.evs,
                       <<[off |-> 0, len |-> io.n, took |-> r.ret]>>, 0)
    /\ UNCHANGED <<vars, addrVars, raceVars>>

\* write_n(buf, n)
WriteN ==
    /\ EndingSchedule
    /\ LET r == stream_socket_write_n(io.n, io.evs)
       IN  io' = IoRec(io.rto, r.err, "write_n", io.n, r.ret, io.evs, r.calls, r.ret)
    /\ UNCHANGED <<vars, addrVars, raceVars>>

\* write(s), s a string of n bytes
WriteString ==
    /\ EndingSchedule
    /\ LET r == stream_socket_write_string(io.n, io.evs)
       IN  io' = IoRec(io.rto, r.err, "write(string)", io.n, r.ret, io.evs, r.calls,
                       stream_socket_write_n(io.n, io.evs).ret)
    /\ UNCHANGED <<vars, addrVars, raceVars>>

IoNext ==
    \/ \E on \in BOOLEAN : ReadTimeout(on)
    \/ Read
    \/ ReadN
    \/ Write
    \/ WriteN
    \/ WriteString

SpecIO == InitIO /\ [][IoNext]_ioVars

\* ---------------------------------------------------------------- connector
\* The connector is not among the sources; connect is modelled from the
\* specification's section 4.6: it allocates a descriptor, starts the native
\* connect and waits up to the timeout; on a timeout, a refusal or an
\* unreachable target it closes the descriptor and reports the error; on
\* success it returns a stream socket that owns the descriptor.

\* Some open descriptor is listening on address a.
AddrListening(a) == \E d \in fdOpen : fdListen[d] /\ fdBound[d] = a

\* ::connect to address a within the timeout: the possible error codes.
ConnectOutcomes(a) ==
    {"ETIMEDOUT", "EHOSTUNREACH"}
    \cup (IF AddrListening(a) THEN {"OK"} ELSE {"ECONNREFUSED"})

\* What a failed connect leaves in the handle.
connector_failed_handle(d) == INVALID_SOCKET

\* A failed connect that closes nothing.
connector_failed_closes_nothing(d) == {}

\* The descriptors a failed connect hands to ::close: the one it allocated.
connector_failed_closes(d) == {d}

\* connect(target, timeout), the returned stream socket being object s.
Connect(s, a) ==
    /\ pc = "idle" /\ s \in StreamIds /\ kind[s] = "free"
    /\ kind' = [kind EXCEPT ![s] = "stream"]
    /\ addr_' = [addr_ EXCEPT ![s] = NoAddr]
    /\ \E so \in SocketOutcomes :
          IF so.fd = INVALID_SOCKET
          THEN /\ handle' = [handle EXCEPT ![s] = INVALID_SOCKET]
               /\ lastErr' = [lastErr EXCEPT ![s] = so.err]
               /\ UNCHANGED osVars
               /\ last' = Op("connect", s, s, FALSE, INVALID_SOCKET, INVALID_SOCKET, {},
                             AddrListening(a), a)
          ELSE \E err \in ConnectOutcomes(a) :
               /\ lastErr' = [lastErr EXCEPT ![s] = err]
               /\ handle' = [handle EXCEPT ![s] =
                                IF err = "OK" THEN so.fd ELSE connector_failed_handle(so.fd)]
               /\ fdOpen' = (fdOpen \cup {so.fd})
                            \ (IF err = "OK" THEN {} ELSE connector_failed_closes(so.fd))
               /\ UNCHANGED <<fdBound, fdListen, badClose>>
               /\ last' = Op("connect", s, s, err = "OK", INVALID_SOCKET, so.fd,
                             IF err = "OK" THEN {} ELSE connector_failed_closes(so.fd),
                             AddrListening(a), a)
    /\ UNCHANGED <<ctorVars, rawOwned>>
    /\ UNCHANGED notSockVars

\* Acceptors that listen (built by the templated constructor), connects to
\* their addresses and to addresses nobody listens on, and the end of the
\* sockets' lives.
ConnNext ==
    \/ \E o \in AcceptorIds, a \in Addrs : CtorSocket(o, a)
    \/ CtorBind
    \/ CtorListen
    \/ CtorThrow
    \/ \E s \in StreamIds, a \in Addrs : Connect(s, a)
    \/ \E o \in Objs : Close(o)
    \/ \E o \in Objs : Destroy(o)

SpecConn == Init /\ [][ConnNext]_vars

\* ------------------------------------- a blocking call and a concurrent close
\* One thread makes a call that blocks in the OS: accept on a listening
\* acceptor (templated acceptor.h line 131: ::accept(handle(), paddr, &len)),
\* read or write on a stream socket.  The call reads the handle once, on
\* entry, and the OS works on that descriptor until it returns.  A second
\* thread may call close() on the same object meanwhile; nothing in the
\* classes orders the two.  What the OS does with a call that is blocked on a
\* descriptor when the descriptor is closed differs between the systems the
\* library builds on: it either ends the call with an error, or leaves it
\* waiting on the open file behind the descriptor, where it can still
\* complete.

\* The blocking calls an object has.
BlockingOps(o) == IF kind[o] = "acceptor" THEN {"accept"} ELSE {"read", "write"}

\* The thread enters blocking call op on object o, with nothing ready for it
\* yet; an accept will return its socket in object s.  wakes: what this OS
\* does for the call if the descriptor is closed under it.
BlockingCall(o, op, s, wakes) ==
    /\ blk.t = "idle" /\ Usable(o) /\ op \in BlockingOps(o)
    /\ IsValid(o) /\ IsOpenFd(handle[o])
    /\ IF op = "accept"
       THEN fdListen[handle[o]] /\ s \in StreamIds /\ kind[s] = "free"
       ELSE s = o
    /\ blk' = BlkRec("blocked", op, o, s, handle[o], wakes, FALSE, "none")
    /\ UNCHANGED <<vars, addrVars, ioVars>>

\* close() on object o by the second thread.
ConcurrentClose(o) ==
    /\ Usable(o)
    /\ socket_close(o)
    /\ last' = Op("close", o, o, TRUE, handle[o], INVALID_SOCKET,
                  socket_close_fds(handle[o]), FALSE, NoAddr)
    /\ blk' = [blk EXCEPT !.closed = @ \/ (blk.t = "blocked" /\ blk.obj = o
                                               /\ blk.fd = handle[o])]
    /\ UNCHANGED <<kind, ctorVars, rawOwned, addrVars, ioVars>>

\* What a blocked call that completes can return: accept a new descriptor
\* (or none when the table is full), read and write a count or an error.
CompletionOutcomes ==
    IF blk.op = "accept"
    THEN IF FreeFds = {} THEN {[fd |-> INVALID_SOCKET, err |-> "EMFILE"]}
         ELSE {[fd |-> NextFd, err |-> "OK"]}
    ELSE {[fd |-> INVALID_SOCKET, err |-> "OK"],
          [fd |-> INVALID_SOCKET, err |-> "ECONNRESET"]}

\* The blocked call returns out to its thread: the result goes through
\* check_ret, and accept wraps a descriptor in a new stream socket.
BlockedCallReturns(out) ==
    /\ IF blk.op = "accept"
       THEN /\ acceptor_accept(blk.obj, blk.other, out)
            /\ kind' = [kind EXCEPT ![blk.other] = "stream"]
       ELSE /\ lastErr' = [lastErr EXCEPT ![blk.obj] = out.err]
            /\ UNCHANGED <<kind, handle, addr_, osVars>>
    /\ last' = Op(blk.op, blk.obj, blk.other, out.err = "OK", blk.fd, out.fd, {},
                  FALSE, NoAddr)
    /\ blk' = [blk EXCEPT !.t = "done", !.res = IF out.err = "OK" THEN "ok" ELSE "err"]
    /\ UNCHANGED <<ctorVars, rawOwned, addrVars, ioVars>>

\* The OS ends a blocked call whose descriptor was closed: EBADF.
WokenByClose ==
    /\ blk.t = "blocked" /\ blk.closed /\ blk.wakes
    /\ BlockedCallReturns([fd |-> INVALID_SOCKET, err |-> "EBADF"])

\* What the call waits for happens (a connection, data, room to send, or
\* the connection breaking), and the call completes: also after a close, on
\* an OS that leaves the call waiting.
Completed ==
    /\ blk.t = "blocked" /\ ~(blk.closed /\ blk.wakes)
    /\ \E out \in CompletionOutcomes : BlockedCallReturns(out)

\* The thread goes on after the call.
Resumed ==
    /\ blk.t = "done"
    /\ blk' = BlkInit
    /\ UNCHANGED <<vars, addrVars, ioVars>>

\* Acceptors are built and listen; one thread makes blocking calls on them
\* and on the sockets they return, another closes objects at any time.
RaceNext ==
    \/ \E o \in AcceptorIds, a \in Addrs : CtorSocket(o, a)
    \/ CtorBind
    \/ CtorListen
    \/ CtorThrow
    \/ \E o \in Objs, op \in {"accept", "read", "write"}, s \in Objs, wakes \in BOOLEAN :
          BlockingCall(o, op, s, wakes)
    \/ \E o \in Objs : ConcurrentClose(o)
    \/ WokenByClose
    \/ Completed
    \/ Resumed

raceAll == <<vars, blk>>

\* A thread that can return from a call does, and an OS that ends blocked
\* calls on close does end them; whether what a call waits for ever happens
\* is up to the peer.
SpecRace == Init /\ [][RaceNext]_raceAll /\ WF_raceAll(WokenByClose) /\ WF_raceAll(Resumed)


\* ------------------------------------------------------------------ claims

\* The acceptors other than o that are listening on address a.
OtherListeners(o, a) ==
    {p \in AcceptorIds \ {o} : Live(p) /\ IsListening(p) /\ fdBound[handle[p]] = a}

\* The acceptors that are listening on address a.
Listeners(a) ==
    {p \in AcceptorIds : Live(p) /\ IsListening(p) /\ fdBound[handle[p]] = a}

\* The live objects whose handle holds descriptor d.
Owners(d) == {o \in Objs : Live(o) /\ handle[o] = d}

\* C1 (as claimed): open(address, backlog) on an unopened acceptor either
\* fails, returning false and leaving the handle invalid (nothing allocated,
\* not bound, not listening), or succeeds, returning true and leaving the
\* acceptor listening.
C1_OpenFailsClosedOrListens ==
    (last.op = "open" /\ last.fd = INVALID_SOCKET) =>
        \/ ~last.ok /\ ~IsValid(last.obj)
        \/ last.ok /\ IsListening(last.obj) /\ fdBound[handle[last.obj]] = last.addr

\* C2 (as claimed): open on an acceptor that is already listening, with the
\* address it is bound to, returns success and changes nothing.
C2_ReopenIsNoOpSuccess ==
    (last.op = "open" /\ last.wasListening /\ last.addr = addr_[last.obj]) =>
        /\ last.ok
        /\ handle[last.obj] = last.fd
        /\ IsListening(last.obj)
        /\ fdBound[handle[last.obj]] = last.addr

\* C3 (as claimed): when the OS bind request fails, the handle is invalid
\* when bind returns.
C3_FailedBindLeavesHandleInvalid ==
    (last.op = "bind" /\ ~last.ok) => ~IsValid(last.obj)

\* C3 (amended): when the OS bind request fails, bind returns false with the
\* error recorded, the cached address untouched and the handle as it was: a
\* descriptor the acceptor had is still open, unbound and owned by it, and
\* the constructor that called bind goes on to throw.
C3_FailedBindLeavesHandleAsItWas ==
    (last.op = "bind" /\ ~last.ok) =>
        /\ handle[last.obj] = last.fd
        /\ last.fd # INVALID_SOCKET =>
              IsOpenFd(last.fd) /\ fdBound[last.fd] = NoAddr /\ ~fdListen[last.fd]
        /\ lastErr[last.obj] # "OK"
        /\ addr_[last.obj] = NoAddr
        /\ pc = "throw"

\* C3 witness: an OS bind request has failed on an acceptor that holds a
\* descriptor.
C3_Witness ==
    last.op = "bind" /\ ~last.ok /\ last.fd # INVALID_SOCKET
    /\ lastErr[last.obj] = "EADDRINUSE"

\* C4 (as claimed): when acceptor B opens on an address another acceptor is
\* listening on, the operation fails with EADDRINUSE and leaves B's handle
\* invalid; and no two acceptors are ever listening on one address.
C4_SecondOpenFailsAddressInUse ==
    /\ \A a \in Addrs : Cardinality(Listeners(a)) <= 1
    /\ (last.op = "open" /\ last.fd = INVALID_SOCKET
          /\ OtherListeners(last.obj, last.addr) # {}) =>
            ~last.ok /\ lastErr[last.obj] = "EADDRINUSE" /\ ~IsValid(last.obj)

\* C5: a successful accept returns a stream socket that owns a descriptor
\* which is open, is not the acceptor's own and is held by no other live
\* handle nor by the caller, and it leaves the acceptor listening with the
\* descriptor and the cached address it had.
C5_AcceptYieldsNewSocket ==
    (last.op = "accept" /\ last.ok) =>
        /\ handle[last.other] = last.ret
        /\ IsOpenFd(last.ret)
        /\ last.ret # last.fd
        /\ Owners(last.ret) = {last.other}
        /\ last.ret \notin rawOwned
        /\ ~fdListen[last.ret]
        /\ last.wasListening
        /\ handle[last.obj] = last.fd
        /\ IsListening(last.obj)
        /\ addr_[last.obj] = last.addr

\* C5 witness: an accept has succeeded while a socket of an earlier accept
\* is still open.
C5_Witness ==
    /\ last.op = "accept" /\ last.ok
    /\ \E s \in StreamIds \ {last.other} : Live(s) /\ IsValid(s)

\* C6, one step.  An acceptor's descriptor never goes back from listening
\* or from bound while the acceptor holds it; an acceptor whose handle is
\* invalid between operations never gets a descriptor again; a listen that
\* succeeds acts on a descriptor bound by the acceptor's bind; an accept
\* succeeds only on a listening acceptor, and on any other it records an
\* error and returns an invalid socket.
C6_Step ==
    /\ \A o \in AcceptorIds :
          (kind[o] = "acceptor" /\ kind'[o] = "acceptor") =>
              /\ (IsBound(o) /\ handle'[o] # INVALID_SOCKET) =>
                    (handle'[o] = handle[o] /\ fdBound'[handle[o]] = fdBound[handle[o]])
              /\ (IsListening(o) /\ handle'[o] # INVALID_SOCKET) =>
                    (handle'[o] = handle[o] /\ fdListen'[handle[o]])
              /\ (pc = "idle" /\ ~IsValid(o)) => handle'[o] = INVALID_SOCKET
    /\ (last'.op = "listen" /\ last'.ok) =>
          /\ fdBound'[handle'[last'.obj]] = last'.addr
          /\ addr_'[last'.obj] = last'.addr
          /\ last.op = "bind" /\ last.ok /\ last.obj = last'.obj
    /\ (last'.op = "accept" /\ last'.ok) => last'.wasListening
    /\ (last'.op = "accept" /\ ~last'.wasListening) =>
          /\ ~last'.ok
          /\ handle'[last'.other] = INVALID_SOCKET
          /\ lastErr'[last'.obj] # "OK"

\* C6: in every execution the acceptor moves only along
\* Unopened -> Bound -> Listening -> Closed; listen succeeds only after a
\* successful bind on the same descriptor; accept succeeds only while
\* listening and otherwise returns an error and no valid socket.
C6_AcceptorStateMachine == [][C6_Step]_vars

\* C6 witness: accept was called on an acceptor that had been bound and is
\* now closed, and returned an invalid socket.
C6_Witness ==
    /\ last.op = "accept" /\ ~last.wasListening /\ ~last.ok
    /\ addr_[last.obj] # NoAddr /\ ~IsValid(last.obj)

\* C7: a move construction leaves the source invalid and the target owning
\* the source's descriptor; a close or a destruction of a handle without a
\* descriptor closes nothing, one of a handle with a descriptor closes that
\* descriptor, and ::close is never applied to a descriptor that is not open.
C7_MoveTransfersDescriptor ==
    /\ last.op = "move" =>
          /\ handle[last.obj] = INVALID_SOCKET
          /\ handle[last.other] = last.fd
          /\ last.closed = {}
          /\ last.fd # INVALID_SOCKET => IsOpenFd(last.fd) /\ Owners(last.fd) = {last.other}
    /\ last.op \in {"close", "destroy"} =>
          /\ last.closed = (IF last.fd = INVALID_SOCKET THEN {} ELSE {last.fd})
          /\ last.closed \cap fdOpen = {}
    /\ ~badClose

\* C7 witness: a socket that owns a descriptor has been moved from.
C7_Witness ==
    last.op = "move" /\ last.fd # INVALID_SOCKET /\ last.obj # last.other

\* C8: every open descriptor is held by at most one live handle object (and
\* by none once the caller holds it), every handle with a descriptor holds
\* an open one, and a handle destroyed while it owns a descriptor closes it.
C8_SingleOwner ==
    /\ \A d \in fdOpen :
          Cardinality(Owners(d)) + (IF d \in rawOwned THEN 1 ELSE 0) <= 1
    /\ \A o \in Objs : (Live(o) /\ IsValid(o)) => IsOpenFd(handle[o])
    /\ (last.op \in {"destroy", "throw"} /\ last.fd # INVALID_SOCKET) =>
          /\ last.closed = {last.fd}
          /\ ~IsOpenFd(last.fd)
          /\ kind[last.obj] = "free"

\* C8 witness: a handle was destroyed while it owned a descriptor, with
\* other handles and a released descriptor around.
C8_Witness ==
    /\ last.op = "destroy" /\ last.fd # INVALID_SOCKET
    /\ \E o \in Objs : Live(o) /\ IsValid(o)
    /\ rawOwned # {}

\* C9, one step.  close leaves the handle invalid and reports no error; on
\* a handle with a descriptor it closes that descriptor, on one without it
\* closes nothing; and a handle that is invalid between operations stays
\* invalid for the rest of the object's life.
C9_Step ==
    /\ last'.op = "close" =>
          /\ handle'[last'.obj] = INVALID_SOCKET
          /\ last'.ok
          /\ lastErr'[last'.obj] = lastErr[last'.obj]
          /\ last'.closed = (IF last'.fd = INVALID_SOCKET THEN {} ELSE {last'.fd})
          /\ last'.closed \cap fdOpen' = {}
          /\ fdOpen' = fdOpen \ last'.closed
          /\ ~badClose'
    /\ \A o \in Objs :
          (Live(o) /\ pc = "idle" /\ ~IsValid(o) /\ kind'[o] = kind[o]) =>
              handle'[o] = INVALID_SOCKET

C10_ReleaseKeepsDescriptorOpen ==
    /\ last.op = "release" =>
          /\ last.ret = last.fd
          /\ handle[last.obj] = INVALID_SOCKET
          /\ last.closed = {}
          /\ last.fd # INVALID_SOCKET => last.fd \in rawOwned
    /\ rawOwned \subseteq fdOpen
    /\ \A d \in rawOwned : Owners(d) = {}
    /\ last.op \in {"close", "destroy", "throw"} => last.closed \cap rawOwned = {}

\* C10 witness: a handle was closed or destroyed after its descriptor had
\* been released, and the descriptor is still open.
C10_Witness ==
    /\ last.op \in {"close", "destroy"} /\ last.fd = INVALID_SOCKET
    /\ rawOwned # {} /\ rawOwned \subseteq fdOpen

\* ---------------------------------------------------- claims: address types

\* is_set() of the address object in adr.
AdrIsSet == IF adr.kind = "unix" THEN unix_is_set(adr.val) ELSE inet6_is_set(adr.val)

\* C11: a constructor of an address type given a native structure whose
\* family discriminator is not the type's family throws, and no address
\* object comes to exist.
C11_MismatchedFamilyRejected ==
    (adr.native /\ adr.src[1] # adr.family) => (adr.thrown /\ adr.kind = "none")

\* C12: an address rebuilt from the native view of an address of its own
\* type (one built from a non-empty path or non-zero host/port fields)
\* equals that address cell for cell over the whole structure, and has the
\* same path.
C12_NativeRoundTrip ==
    (adr.native /\ adr.own /\ adr.set = "set") =>
        /\ ~adr.thrown
        /\ adr.val = adr.prev
        /\ (adr.kind = "unix" => unix_path(adr.val) = unix_path(adr.prev))

\* C13: a constructor from a native structure copies no more cells than its
\* source holds and no more than the constructed address structure holds.
C13_CopyWithinBounds ==
    (adr.native /\ ~adr.thrown) => (adr.ncopy <= adr.srcSize /\ adr.ncopy <= adr.dstSize)

C15_PathCopiedWithTruncation ==
    /\ adr.op = "unix_address(path)" =>
          /\ adr.ncopy <= MAX_PATH_NAME
          /\ adr.ncopy <= adr.dstSize
          /\ unix_path(adr.val) = Prefix(adr.arg, MAX_PATH_NAME)
    /\ adr.op = "unix_address(copy)" => unix_path(adr.val) = unix_path(adr.prev)

\* A path longer than fits, cut to the first MAX_PATH_NAME characters.
C15_Witness ==
    /\ adr.op = "unix_address(path)" /\ Len(adr.arg) > MAX_PATH_NAME
    /\ Len(unix_path(adr.val)) = MAX_PATH_NAME
    /\ unix_path(adr.val) = Prefix(adr.arg, MAX_PATH_NAME)

\* ------------------------------------------------------- claims: stream I/O

\* What the call in io met last.
IoEnd == io.evs[Len(io.evs)].kind

\* The bytes the peer delivers during the call in io.
IoDelivered == Delivered(io.evs)

\* C16: read_n(buf, N) returns N with no error when the peer delivers at
\* least N bytes, however they are split over the reads; when the peer
\* delivers k < N bytes and closes, it returns k with the last-error slot
\* clear (end of stream), while after a hard error the slot holds the error.
C16_ReadNExactOrEof ==
    io.op = "read_n" =>
        /\ IoDelivered >= io.n => (io.ret = io.n /\ io.err = "OK")
        /\ (IoDelivered < io.n /\ IoEnd = "close") =>
              (io.ret = IoDelivered /\ io.ret < io.n /\ io.err = "OK")
        /\ (IoDelivered < io.n /\ IoEnd # "close") => io.err # "OK"

\* Two partial reads and then the peer's close, short of the length asked.
C16_Witness ==
    /\ io.op = "read_n" /\ Len(io.evs) = 3 /\ IoEnd = "close"
    /\ IoDelivered < io.n /\ io.ret = IoDelivered /\ io.err = "OK"

\* Every write the call in io issued was taken by the OS.
AllWritesSucceed == \A i \in 1..Len(io.calls) : io.calls[i].took >= 0

\* The bytes taken by the writes before the i-th.
RECURSIVE TookBefore(_, _)
TookBefore(calls, i) == IF i <= 1 THEN 0 ELSE calls[i - 1].took + TookBefore(calls, i - 1)

\* write_n's part of C17: each write is given the suffix not yet written, the
\* bytes handed to the OS are the buffer, and n is returned.
WriteNSendsSuffixes ==
    (io.op \in {"write_n", "write(string)"} /\ AllWritesSucceed) =>
        /\ \A i \in 1..Len(io.calls) :
              /\ io.calls[i].off = TookBefore(io.calls, i)
              /\ io.calls[i].len = io.n - io.calls[i].off
        /\ Sent(Buf(io.n), io.calls) = Buf(io.n)
        /\ io.retN = io.n

\* C17: write_n(buf, n), when every underlying write succeeds, gives each
\* write the suffix not yet written, hands the OS exactly buf[0..n) and
\* returns n; write(string s) returns what write_n returns over s's bytes.
C17_WriteNSendsWholeBuffer ==
    /\ WriteNSendsSuffixes
    /\ (io.op = "write(string)" /\ AllWritesSucceed) => (io.ret = io.retN /\ io.ret = io.n)

OsAnswers ==
    LET o == last'.obj
    IN  IF last'.op = "bind" THEN BindOutcomes(handle[o], last'.addr)
        ELSE IF last'.op = "listen" THEN ListenOutcomes(handle[o])
        ELSE {out.err : out \in AcceptOutcomes(handle[o])}

\* One step of C19: after bind, listen or accept the last-error slot of the
\* handle is clear exactly when the call succeeded, and otherwise holds an
\* error code of that call.
C19_Step ==
    last'.op \in {"bind", "listen", "accept"} =>
        /\ lastErr'[last'.obj] \in OsAnswers
        /\ last'.ok <=> (lastErr'[last'.obj] = "OK")

NoDescriptorLeaked == \A d \in fdOpen : Owners(d) # {} \/ d \in rawOwned

\* C20: a connect that times out reports ETIMEDOUT, one that is refused or
\* cannot reach the target reports that error; the descriptor allocated for
\* the attempt is closed and the handle is invalid; no open descriptor is
\* left without an owner.
C20_FailedConnectClosesDescriptor ==
    /\ (last.op = "connect" /\ ~last.ok) =>
          /\ handle[last.obj] = INVALID_SOCKET
          /\ lastErr[last.obj] \in {"ETIMEDOUT", "ECONNREFUSED", "EHOSTUNREACH", "EMFILE"}
          /\ lastErr[last.obj] = "ECONNREFUSED" => ~last.wasListening
          /\ last.ret # INVALID_SOCKET => (last.ret \in last.closed /\ last.ret \notin fdOpen)
    /\ NoDescriptorLeaked

\* A connect refused by an address nobody listens on, its descriptor closed.
C20_Witness ==
    /\ last.op = "connect" /\ ~last.ok /\ lastErr[last.obj] = "ECONNREFUSED"
    /\ last.ret # INVALID_SOCKET /\ last.ret \notin fdOpen
    /\ handle[last.obj] = INVALID_SOCKET

\* ------------------------------------- claims: constructor, cached address

\* One step of C23, for the acceptor the step's operation was called on and
\* for every other acceptor that exists before and after the step.
C23_Step ==
    /\ (last'.op = "bind" /\ last'.ok) => addr_'[last'.obj] = last'.addr
    /\ (last'.op = "bind" /\ ~last'.ok) => addr_'[last'.obj] = addr_[last'.obj]
    /\ last'.op \in {"listen", "accept"} => addr_'[last'.obj] = addr_[last'.obj]
    /\ \A o \in AcceptorIds :
          (kind[o] = "acceptor" /\ kind'[o] = "acceptor" /\ addr_'[o] # addr_[o]) =>
              (last'.op = "bind" /\ last'.ok /\ last'.obj = o)

C22_CtorListensOrSurfacesFailure ==
    LET o == last.obj
        listening == /\ Live(o) /\ IsListening(o)
                     /\ fdBound[handle[o]] = last.addr /\ addr_[o] = last.addr
    IN  /\ last.op = "acceptor(addr)" =>
              \/ listening
              \/ ~IsValid(o) /\ lastErr[o] # "OK"
        /\ (last.op \in {"bind", "listen"} /\ ~last.ok) => pc = "throw"
        /\ (last.op = "listen" /\ pc = "idle") => listening
        /\ last.op = "throw" =>
              /\ ~Live(o)
              /\ last.fd # INVALID_SOCKET => (last.fd \in last.closed /\ last.fd \notin fdOpen)

\* ------------------------------------------------ claims: loop termination

C21_NoSuccessOnClosedDescriptor == ~(blk.t = "done" /\ blk.closed /\ blk.res = "ok")

\* A blocked call whose object was closed returns with an error.
C21_BlockedCallReturnsError ==
    (blk.t = "blocked" /\ blk.closed) ~> (blk.t = "done" /\ blk.res = "err")

\* C21 (as claimed): with one thread blocked in accept, read or write on a
\* handle and a second thread closing that handle, the blocked call
\* eventually returns with an error; it never stays blocked forever and never
\* returns a success obtained on the closed descriptor.
C21_CloseUnblocksWithError ==
    /\ []C21_NoSuccessOnClosedDescriptor
    /\ C21_BlockedCallReturnsError

====
